---- MODULE Spec2Model ----
(***************************************************************************)
(* A model of the test execution engine of competitive-programming-tester: *)
(* RunDir::new / RunCommand::new / RunDir::run (src/src/commands/run.rs),  *)
(* the case store of src/src/test_data.rs, the defaults RunArgs takes from *)
(* src/src/config.rs and the tail of main().                               *)
(*                                                                         *)
(* Text (String) is modelled as a sequence of Unicode code points, so that *)
(* str::trim, str::parse::<i32> and the byte-wise ordering of String are   *)
(* computed character by character as the standard library computes them. *)
(***************************************************************************)
EXTENDS Integers, Sequences, FiniteSets, TLC

VARIABLES
    arg,          \* input of the pure function under study (SpecOrder, SpecCompare)
    ret,          \* its result
    pc,           \* position of the run command
    args,         \* RunArgs: file type, cases, show_input, compare_output, timeout
    config,       \* Config: unicode_output
    test,         \* the Test handed to RunDir::new (cases already filled)
    run_dir,      \* the RunDir built by RunDir::new (NoRunDir before / on failure)
    temp_dir,     \* the TempDir on disk: exists, files; created: TempDir::new was called
    order,        \* the Vec built by case_iter for the running for loop
    idx,          \* position of the for loop in order
    child,        \* the child process of the case being run
    elapsed,      \* milliseconds since Instant::now() of the current case
    launched,     \* names of the cases whose process was spawned, in order
    compiles,     \* the compiler processes run: program and outcome
    stdout,       \* what the tool printed: one record per reported case
    result,       \* the Result of RunDir::new / RunDir::run, or a panic
    main_exit     \* how the tool's process ended: exit status and what main printed to stderr

vars == <<arg, ret, pc, args, config, test, run_dir, temp_dir, order, idx,
          child, elapsed, launched, compiles, stdout, result, main_exit>>

sessionVars == <<pc, args, config, test, run_dir, temp_dir, order, idx,
                 child, elapsed, launched, compiles, stdout, result, main_exit>>

(***************************************************************************)
(* Bounds of the model.                                                    *)
(***************************************************************************)
MaxNames == 3      \* case names per Test in SpecOrder
MaxTimeout == 1    \* largest --timeout drawn, in milliseconds
MaxSelected == 2   \* longest --cases list drawn
MaxFiles == 4      \* files in the folder fill_cases scans
MaxRemoved == 2    \* longest list of names given to remove

(***************************************************************************)
(* Text.  "1" is <<49>>, "a" is <<97>>, " " is <<32>>, "\n" is <<10>>.     *)
(***************************************************************************)
Range(s) == {s[i] : i \in DOMAIN s}

Perms(S) == {p \in [1..Cardinality(S) -> S] : Range(p) = S}

\* String's Ord: lexicographic comparison of the bytes (code points here).
StrLess(a, b) ==
    \E i \in 1..(Len(a) + 1) :
        /\ \A j \in 1..(i - 1) : j <= Len(b) /\ a[j] = b[j]
        /\ \/ i = Len(a) + 1 /\ Len(b) >= i
           \/ i <= Len(a) /\ i <= Len(b) /\ a[i] < b[i]

StrLessEq(a, b) == a = b \/ StrLess(a, b)

I32_MAX == 2147483647

IsDigit(c) == c >= 48 /\ c <= 57

\* i32::from_str on the digits after the sign: checked_mul(10), then
\* checked_add (positive) or checked_sub (negative) of the digit.
RECURSIVE ParseDigits(_, _, _)
ParseDigits(digits, acc, negative) ==
    IF digits = <<>> THEN [ok |-> TRUE, val |-> acc]
    ELSE IF ~IsDigit(Head(digits)) THEN [ok |-> FALSE, val |-> 0]
    ELSE LET d == Head(digits) - 48 IN
         IF negative
         THEN IF acc < -214748364 THEN [ok |-> FALSE, val |-> 0]
              ELSE IF acc * 10 < (-I32_MAX - 1) + d THEN [ok |-> FALSE, val |-> 0]
              ELSE ParseDigits(Tail(digits), acc * 10 - d, negative)
         ELSE IF acc > 214748364 THEN [ok |-> FALSE, val |-> 0]
              ELSE IF acc * 10 > I32_MAX - d THEN [ok |-> FALSE, val |-> 0]
              ELSE ParseDigits(Tail(digits), acc * 10 + d, negative)

\* str::parse::<i32>(): empty text and a lone sign are errors; one leading
\* '+' or '-' is accepted; every other character must be an ASCII digit.
ParseI32(s) ==
    IF s = <<>> THEN [ok |-> FALSE, val |-> 0]
    ELSE IF s[1] \in {43, 45}
         THEN IF Len(s) = 1 THEN [ok |-> FALSE, val |-> 0]
              ELSE ParseDigits(Tail(s), 0, s[1] = 45)
         ELSE ParseDigits(s, 0, FALSE)

KeyLessEq(a, b) == ParseI32(a).val <= ParseI32(b).val

\* The order a sort compares by: the parsed key (sort_by_key) or String's Ord.
SortLessEq(by_key, a, b) == IF by_key THEN KeyLessEq(a, b) ELSE StrLessEq(a, b)

\* slice::sort / sort_by_key are stable merge sorts: the result is the one
\* stable ordering of the input, computed here by stable insertion.
RECURSIVE InsertStable(_, _, _)
InsertStable(x, sorted, by_key) ==
    IF sorted = <<>> THEN <<x>>
    ELSE IF SortLessEq(by_key, Head(sorted), x)
         THEN <<Head(sorted)>> \o InsertStable(x, Tail(sorted), by_key)
         ELSE <<x>> \o sorted

RECURSIVE StableSort(_, _)
StableSort(s, by_key) ==
    IF s = <<>> THEN <<>>
    ELSE InsertStable(s[Len(s)], StableSort(SubSeq(s, 1, Len(s) - 1), by_key), by_key)

\* get_sorted_case_names without its numeric branch
get_sorted_case_names_lexicographic(keys) == StableSort(keys, FALSE)

\* Test::get_sorted_case_names; keys is self.cases.keys() in the order the
\* HashMap enumerates them.
get_sorted_case_names(keys) ==
    LET all_parsed == \A i \in DOMAIN keys : ParseI32(keys[i]).ok
    IN  IF all_parsed
        THEN StableSort(keys, TRUE)
        ELSE StableSort(keys, FALSE)

\* char::is_whitespace: the Unicode White_Space property.
IsWhitespace(c) ==
    \/ c \in 9..13
    \/ c \in {32, 133, 160, 5760, 8232, 8233, 8239, 8287, 12288}
    \/ c \in 8192..8202

RECURSIVE trim_start(_)
trim_start(s) ==
    IF s # <<>> /\ IsWhitespace(Head(s)) THEN trim_start(Tail(s)) ELSE s

RECURSIVE trim_end(_)
trim_end(s) ==
    IF s # <<>> /\ IsWhitespace(s[Len(s)])
    THEN trim_end(SubSeq(s, 1, Len(s) - 1))
    ELSE s

\* trim that leaves the leading whitespace in place
trim_end_only(s) == trim_end(s)

\* str::trim
trim(s) == trim_end(trim_start(s))

\* The comparison of RunDir::run: case.get_output().trim() == output.trim()
outputs_match(expected, output) == trim(expected) = trim(output)

pass_symbol(unicode_output) == IF unicode_output THEN "U+2705" ELSE "PASSED"
fail_symbol(unicode_output) == IF unicode_output THEN "U+274C" ELSE "FAILED"

\* the verdict RunDir::run prints for a case
verdict(expected, output, unicode_output) ==
    IF outputs_match(expected, output)
    THEN pass_symbol(unicode_output)
    ELSE fail_symbol(unicode_output)

\* str::lines: split at "\n", a final empty piece dropped, one trailing "\r"
\* of each line dropped.
RECURSIVE SplitLines(_, _)
SplitLines(s, cur) ==
    IF s = <<>> THEN (IF cur = <<>> THEN <<>> ELSE <<cur>>)
    ELSE IF Head(s) = 10 THEN <<cur>> \o SplitLines(Tail(s), <<>>)
    ELSE SplitLines(Tail(s), Append(cur, Head(s)))

StripCR(l) == IF l # <<>> /\ l[Len(l)] = 13 THEN SubSeq(l, 1, Len(l) - 1) ELSE l

lines(s) == LET ls == SplitLines(s, <<>>) IN [i \in DOMAIN ls |-> StripCR(ls[i])]

RECURSIVE JoinLines(_)
JoinLines(ls) ==
    IF ls = <<>> THEN <<>>
    ELSE IF Len(ls) = 1 THEN ls[1]
    ELSE ls[1] \o <<10>> \o JoinLines(Tail(ls))

\* text.lines().map(|l| format!("\t{}", l)).collect::<Vec<String>>().join("\n")
indent_lines(s) == LET ls == lines(s) IN JoinLines([i \in DOMAIN ls |-> <<9>> \o ls[i]])

(***************************************************************************)
(* Option<T> is a sequence of length 0 (None) or 1 (Some).                 *)
(***************************************************************************)
Some(x) == <<x>>
Nothing == <<>>
IsSome(o) == o # <<>>

(***************************************************************************)
(* Errors.  A Result<_, String> error is the format string that built it   *)
(* and the values interpolated into it; handle_error! wraps an error in a  *)
(* context and keeps its text ("{custom}: \nError Data: {e}").             *)
(***************************************************************************)
NoFields ==
    [exit_code |-> Nothing, timeout |-> Nothing, stdout |-> Nothing,
     stderr |-> Nothing, case_name |-> Nothing, path |-> Nothing]

\* a formatted message: the format string and the values put into it
Msg(msg, fields) == [msg |-> msg, fields |-> fields]
Plain(msg) == Msg(msg, NoFields)

MkErr(msg, fields) == [msg |-> msg, fields |-> fields, context |-> <<>>]

NoErr == MkErr("", NoFields)

\* an error of the operating system (std::io::Error, FromUtf8Error)
io_error(what) == MkErr(what, NoFields)

\* handle_error!(result, custom_error) on an Err
handle_error(e, custom_error) == [e EXCEPT !.context = <<custom_error>> \o @]

\* the values an error's text shows for a field, its contexts included
Shown(e, field) ==
    {e.fields[field]} \cup {e.context[i].fields[field] : i \in DOMAIN e.context}

Running == [tag |-> "Running", err |-> NoErr]
Ok == [tag |-> "Ok", err |-> NoErr]
Err(e) == [tag |-> "Err", err |-> e]
\* a panic (Option::unwrap on None) unwinds out of main
Panic(what) == [tag |-> "Panic", err |-> MkErr(what, NoFields)]

(***************************************************************************)
(* The stored Test and the command line of a session.                      *)
(***************************************************************************)
\* case names of the stored tests: "2" and "10"
SessionNames == {<<50>>, <<49, 48>>}
\* a name no stored test has: "9"
UnknownName == <<57>>

\* The stored case called n: its input is n and a line end, its expected
\* output is n doubled ("2" -> "22\n"), so no two cases share input or output.
StoredCase(n) == [input |-> n \o <<10>>, output |-> n \o n \o <<10>>]

\* A file name is the sequence of its parts between dots: "data.in" is
\* <<"data", "in">>, "data.v2" is <<"data", "v2">>, "output" is <<"output">>.
\* Path::file_stem: the name without its last part, if it has more than one.
file_stem(path) == IF Len(path) > 1 THEN SubSeq(path, 1, Len(path) - 1) ELSE path

\* Path::with_extension / PathBuf::set_extension: the extension replaces the
\* one the name already has, or is added when it has none.
with_extension(path, extension) == Append(file_stem(path), extension)

STD == [tag |-> "STD", path |-> <<>>]
FILE(path) == [tag |-> "FILE", path |-> path]

\* the extensions of the stored tests: the defaults of `add`
input_extension == "in"
output_extension == "out"

\* --io of `add`: absent, or one name for both files: "data", "data.v2"
IoNames == {<<"data">>, <<"data", "v2">>}
IoArgs == {Nothing} \cup {Some(<<n>>) : n \in IoNames}

\* AddArgs::get_io for a test added from a folder: both streams standard
\* without --io, else the named files with the test's extensions.
get_io(io) ==
    IF IsSome(io)
    THEN [input_io |-> FILE(with_extension(io[1][1], input_extension)),
          output_io |-> FILE(with_extension(io[1][Len(io[1])], output_extension))]
    ELSE [input_io |-> STD, output_io |-> STD]

\* Tests as `add` creates them.
Tests ==
    { [cases |-> [n \in N |-> StoredCase(n)],
       input_io |-> get_io(io).input_io, output_io |-> get_io(io).output_io] :
        N \in (SUBSET SessionNames) \ {{}}, io \in IoArgs }

RECURSIVE SeqsUpTo(_, _)
SeqsUpTo(S, n) ==
    IF n = 0 THEN {<<>>}
    ELSE LET shorter == SeqsUpTo(S, n - 1)
         IN  shorter \cup {Append(q, x) : q \in {r \in shorter : Len(r) = n - 1}, x \in S}

\* --cases: absent, or a comma separated list of names
CaseLists ==
    {Nothing} \cup
    {Some(l) : l \in SeqsUpTo(SessionNames \cup {UnknownName}, MaxSelected) \ {<<>>}}

FileTypes == {"c", "cpp", "java", "py"}

\* the source files of the model, by their type
file_path(file_type) ==
    CASE file_type = "java" -> <<"Main", "java">>
      [] file_type = "py" -> <<"main", "py">>
      [] OTHER -> <<"main", file_type>>

\* --file: what is at the path (nothing, a folder, a file) and the name:
\* the four sources, gone.c that does not exist, the folder folder.c, and
\* the files main, main.txt and main.CPP
SourceArgs ==
    {[kind |-> "file", path |-> file_path(t)] : t \in FileTypes}
    \cup { [kind |-> "missing", path |-> <<"gone", "c">>],
           [kind |-> "dir", path |-> <<"folder", "c">>],
           [kind |-> "file", path |-> <<"main">>],
           [kind |-> "file", path |-> <<"main", "txt">>],
           [kind |-> "file", path |-> <<"main", "CPP">>] }

RunArgsSet ==
    [file : SourceArgs, cases : CaseLists, show_input : BOOLEAN,
     compare_output : BOOLEAN, timeout : 0..MaxTimeout]

(***************************************************************************)
(* The working directory: the files the session and its processes touch.   *)
(***************************************************************************)
FileNames ==
    { <<"output">>, <<"Main", "class">>, <<"Other", "class">>, <<"tmp", "in">>,
      <<"data", "in">>, <<"data", "out">> }

NoTempDir ==
    [exists |-> FALSE, created |-> FALSE, files |-> [f \in FileNames |-> Nothing]]
EmptyTempDir ==
    [exists |-> TRUE, created |-> TRUE, files |-> [f \in FileNames |-> Nothing]]

\* std::fs::remove_dir_all, its first part: the entries found in the
\* directory are deleted
remove_entries(dir) == [dir EXCEPT !.files = [f \in FileNames |-> Nothing]]

\* std::fs::remove_dir_all, its last part: the directory itself is removed,
\* which fails when it is not empty
remove_dir(dir) ==
    IF \A f \in FileNames : dir.files[f] = Nothing
    THEN [dir EXCEPT !.exists = FALSE]
    ELSE dir

\* the content of a file of the working directory, Nothing if there is none
file_content(dir, path) ==
    IF dir.exists /\ path \in DOMAIN dir.files THEN dir.files[path] ELSE Nothing

\* fs::write(path, text) inside the working directory
fs_write(dir, path, text) == [dir EXCEPT !.files[path] = Some(text)]

(***************************************************************************)
(* What a compiler process can do: fail to start, or end with a status     *)
(* (Nothing when a signal killed it), its captured streams and the files   *)
(* it left in the working directory.                                       *)
(***************************************************************************)
CompileRun(code, out, err, made) ==
    [spawned |-> TRUE, code |-> code, stdout |-> out, stderr |-> err, made |-> made]
CompileNotSpawned ==
    [spawned |-> FALSE, code |-> Nothing, stdout |-> "", stderr |-> "", made |-> {}]

CompileOutcomes(file_type) ==
    CASE file_type \in {"c", "cpp"} ->
           { CompileNotSpawned,
             CompileRun(Some(0), "", "", {<<"output">>}),
             CompileRun(Some(1), "", "error: expected ';'", {}),
             CompileRun(Some(1), "In function main", "ld returned 1 exit status", {}),
             CompileRun(Nothing, "", "", {}) }
      [] file_type = "java" ->
           { CompileNotSpawned,
             CompileRun(Some(0), "", "", {<<"Main", "class">>}),
             CompileRun(Some(0), "", "", {<<"Other", "class">>}),
             CompileRun(Some(1), "", "error: ';' expected", {}) }
      [] OTHER -> { CompileRun(Some(0), "", "", {}) }

Command(program, argv) == [program |-> program, argv |-> argv]
NoCommand == Command("", <<>>)

\* ExitStatus::success()
success(status) == status = Some(0)

(***************************************************************************)
(* Test (src/src/test_data.rs)                                             *)
(***************************************************************************)
\* index of the first name of the list that is no case of the Test, 0 if none
FirstMissing(cases, list) ==
    LET missing == {i \in DOMAIN list : list[i] \notin DOMAIN cases}
    IN  IF missing = {} THEN 0 ELSE CHOOSE i \in missing : \A j \in missing : i <= j

case_not_found_error(name) ==
    MkErr("Test case with name {} does not exist", [NoFields EXCEPT !.case_name = Some(name)])

\* set_cases that leaves out the names the Test does not have
set_cases_skips_unknown(t, cases) ==
    IF IsSome(cases)
    THEN [result |-> Ok,
          test |-> [t EXCEPT !.cases = [n \in Range(cases[1]) \cap DOMAIN t.cases |-> t.cases[n]]]]
    ELSE [result |-> Ok, test |-> t]

\* Test::set_cases: the Result and the Test's cases afterwards
set_cases(t, cases) ==
    IF IsSome(cases)
    THEN LET list == cases[1]
             bad == FirstMissing(t.cases, list)
         IN  IF bad # 0
             THEN [result |-> Err(case_not_found_error(list[bad])), test |-> t]
             ELSE [result |-> Ok,
                   test |-> [t EXCEPT !.cases = [n \in Range(list) |-> t.cases[n]]]]
    ELSE [result |-> Ok, test |-> t]

\* get_files of a Test whose input always goes through standard input
get_files_standard_input(t) ==
    [input_file |-> Nothing,
     output_file |-> IF t.output_io.tag = "STD" THEN Nothing ELSE Some(t.output_io.path)]

\* String::from_utf8 succeeds; a byte that is no text is modelled as -1
is_utf8(bytes) == \A i \in DOMAIN bytes : bytes[i] >= 0

\* Path::extension: the last part of a name that has more than one
extension(path) == IF Len(path) > 1 THEN Some(path[Len(path)]) ELSE Nothing

no_test_cases_error ==
    MkErr("No test cases found(Input extension is .{}, Output extension is .{})", NoFields)

\* fill_cases, the scan: for every entry with the input extension, in the
\* order read_dir lists them, output_path is folder/<stem> with
\* set_extension(output_extension); the pair is kept if output_path exists.
RECURSIVE test_case_files(_, _)
test_case_files(entries, folder) ==
    IF entries = <<>> THEN <<>>
    ELSE LET input_path == Head(entries)
             output_path == with_extension(file_stem(input_path), output_extension)
             rest == test_case_files(Tail(entries), folder)
         IN  IF extension(input_path) = Some(input_extension) /\ output_path \in DOMAIN folder
             THEN <<(<<input_path, output_path>>)>> \o rest
             ELSE rest

\* TestCase::new: both files must be UTF-8
TestCase_new(input_data, output_data) ==
    IF ~is_utf8(input_data)
    THEN [result |-> Err(handle_error(io_error("invalid utf-8 sequence"),
                                      Plain("Invalid input data for a test case"))),
          case |-> [input |-> <<>>, output |-> <<>>]]
    ELSE IF ~is_utf8(output_data)
    THEN [result |-> Err(handle_error(io_error("invalid utf-8 sequence"),
                                      Plain("Invalid output data for a test case"))),
          case |-> [input |-> <<>>, output |-> <<>>]]
    ELSE [result |-> Ok, case |-> [input |-> input_data, output |-> output_data]]

\* an insert that adds the new text to the text of a case already stored
HashMap_insert_appending(cases, name, case) ==
    [n \in DOMAIN cases \cup {name} |->
        IF n # name THEN cases[n]
        ELSE IF n \in DOMAIN cases
             THEN [input |-> cases[n].input \o case.input,
                   output |-> cases[n].output \o case.output]
             ELSE case]

\* HashMap::insert: the value of an existing key is replaced
HashMap_insert(cases, name, case) ==
    [n \in DOMAIN cases \cup {name} |-> IF n = name THEN case ELSE cases[n]]

\* fill_cases, the load: each pair is read and inserted under the stem of
\* its input file; the first file that is no UTF-8 ends the load, the
\* cases inserted before it stay in the Test.
RECURSIVE load_cases(_, _, _)
load_cases(file_sets, cases, folder) ==
    IF file_sets = <<>> THEN [result |-> Ok, cases |-> cases]
    ELSE LET file_set == Head(file_sets)
             name == file_stem(file_set[1])
             test_case == TestCase_new(folder[file_set[1]], folder[file_set[2]])
         IN  IF test_case.result.tag = "Err"
             THEN [result |-> test_case.result, cases |-> cases]
             ELSE load_cases(Tail(file_sets), HashMap_insert(cases, name, test_case.case),
                             folder)

\* Test::fill_cases on the folder (file name -> bytes) whose entries read_dir
\* lists in the order entries: the Result and the Test afterwards
fill_cases(t, folder, entries) ==
    LET file_sets == test_case_files(entries, folder) IN
    IF file_sets = <<>>
    THEN [result |-> Err(no_test_cases_error), test |-> t]
    ELSE LET loaded == load_cases(file_sets, t.cases, folder)
         IN  [result |-> loaded.result, test |-> [t EXCEPT !.cases = loaded.cases]]

\* Test::get_files: (input_file, output_file), paths inside the temp dir
get_files(t) ==
    [input_file |-> IF t.input_io.tag = "STD" THEN Nothing ELSE Some(t.input_io.path),
     output_file |-> IF t.output_io.tag = "STD" THEN Nothing ELSE Some(t.output_io.path)]

\* case_iter yielding the names as the HashMap enumerates them
case_iter_as_enumerated(keys) == keys

\* Test::case_iter: the names in the order of get_sorted_case_names
case_iter(keys) == get_sorted_case_names(keys)

(***************************************************************************)
(* file_exists, the value parser of --file (src/src/commands/run.rs)       *)
(***************************************************************************)
no_file_error(file) ==
    MkErr("There is no file at path: {}", [NoFields EXCEPT !.path = Some(file.path)])
is_folder_error(file) ==
    MkErr("Path: {}, is a path to a folder, --file takes a file(As the name implies)",
          [NoFields EXCEPT !.path = Some(file.path)])
invalid_extension_error(file) ==
    MkErr("File has extension .{}, which is invalid, program only supports C(.c), C++(.cpp), Java(.java), and Python(.py)",
          [NoFields EXCEPT !.path = Some(file.path)])

\* file_exists without the test metadata.is_file()
file_exists_any_kind(file) ==
    IF file.kind = "missing" THEN Err(no_file_error(file))
    ELSE IF extension(file.path) = Nothing
    THEN Err(MkErr("Failed to get file extension", NoFields))
    ELSE IF extension(file.path)[1] \notin {"cpp", "java", "py", "c"}
    THEN Err(invalid_extension_error(file))
    ELSE Ok

\* file_exists: the path exists, is a file, has an extension, and the
\* extension is one of cpp, java, py, c
file_exists(file) ==
    IF file.kind = "missing" THEN Err(no_file_error(file))
    ELSE IF file.kind # "file" THEN Err(is_folder_error(file))
    ELSE IF extension(file.path) = Nothing
    THEN Err(MkErr("Failed to get file extension", NoFields))
    ELSE IF extension(file.path)[1] \notin {"cpp", "java", "py", "c"}
    THEN Err(invalid_extension_error(file))
    ELSE Ok

(***************************************************************************)
(* RunCommand::new (src/src/commands/run.rs)                               *)
(***************************************************************************)
\* the FileType RunCommand::new reads off the extension of the file
FileType(path) == extension(path)[1]

RcOk(command) == [tag |-> "Ok", err |-> NoErr, command |-> command]
RcErr(e) == [tag |-> "Err", err |-> e, command |-> NoCommand]
RcPanic(what) == [tag |-> "Panic", err |-> MkErr(what, NoFields), command |-> NoCommand]

compile_failed_error(code, out, err) ==
    MkErr("Failed to compile file, exited with non-zero exit code: {} Stdout: {} Stderr: {}",
          [NoFields EXCEPT !.exit_code = Some(code), !.stdout = Some(out), !.stderr = Some(err)])

\* compile_cpp with the exit status of g++ left unchecked, as for gcc
compile_cpp_status_unchecked(co) ==
    IF ~co.spawned
    THEN RcErr(handle_error(io_error("No such file or directory"), Plain("Failed to compile file")))
    ELSE RcOk(Command("./output", <<>>))

\* FileType::CPP: g++, the status checked
compile_cpp(co) ==
    IF ~co.spawned
    THEN RcErr(handle_error(io_error("No such file or directory"), Plain("Failed to compile file")))
    ELSE IF ~success(co.code)
    THEN IF co.code = Nothing
         THEN RcPanic("called Option::unwrap() on a None value")
         ELSE RcErr(compile_failed_error(co.code[1], co.stdout, co.stderr))
    ELSE RcOk(Command("./output", <<>>))

\* FileType::C: gcc, only the failure to start the compiler is handled
compile_c(co) ==
    IF ~co.spawned
    THEN RcErr(handle_error(io_error("No such file or directory"), Plain("Failed to compile file")))
    ELSE RcOk(Command("./output", <<>>))

class_not_found_error(class_name) ==
    MkErr("Failed to find class file: {}. Class name should be the same as the file name",
          [NoFields EXCEPT !.path = Some(class_name)])

\* compile_java without the check that the class file exists
compile_java_unchecked(co) ==
    IF ~co.spawned
    THEN RcErr(handle_error(io_error("No such file or directory"), Plain("Failed to compile file")))
    ELSE RcOk(Command("java", <<with_extension(file_stem(file_path("java")), "class")>>))

\* FileType::JAVA: javac -d temp_path, then temp_path/<stem>.class must
\* exist whatever the status of javac; the argument of java is
\* class_name.file_name(), the name of the class file.
compile_java(co) ==
    LET class_name == with_extension(file_stem(file_path("java")), "class") IN
    IF ~co.spawned
    THEN RcErr(handle_error(io_error("No such file or directory"), Plain("Failed to compile file")))
    ELSE IF class_name \notin co.made
    THEN RcErr(class_not_found_error(class_name))
    ELSE RcOk(Command("java", <<class_name>>))

\* FileType::PYTHON: no compile step
compile_python(co) == RcOk(Command("python3", <<(<<"-O">>), file_path("py")>>))

RunCommand_new(file_type, co) ==
    CASE file_type = "cpp" -> compile_cpp(co)
      [] file_type = "c" -> compile_c(co)
      [] file_type = "java" -> compile_java(co)
      [] file_type = "py" -> compile_python(co)

Compiler(file_type) ==
    CASE file_type = "cpp" -> "g++"
      [] file_type = "c" -> "gcc"
      [] file_type = "java" -> "javac"
      [] OTHER -> ""

(***************************************************************************)
(* RunDir (src/src/commands/run.rs)                                        *)
(***************************************************************************)
NoRunDir ==
    [built |-> FALSE, run_command |-> NoCommand, input_file |-> Nothing,
     output_file |-> Nothing, show_input |-> FALSE, compare_output |-> FALSE,
     test |-> [cases |-> <<>>, input_io |-> STD, output_io |-> STD],
     unicode_output |-> FALSE, timeout |-> 0]

\* cwd: the current directory the process was given; waited: wait_timeout
\* returned the process's status to the session; wrote: the process wrote
\* the test's output file
NoChild ==
    [state |-> "none", name |-> Nothing, code |-> Nothing, stdin |-> Nothing,
     stdout |-> Nothing, cwd |-> Nothing, waited |-> FALSE, wrote |-> FALSE]

\* CliData::parse in ProgramData::new: clap runs file_exists on --file; on
\* its error clap prints the error and exits with status 2.
CliData_parse ==
    /\ pc = "parse"
    /\ LET parsed == file_exists(args.file) IN
       IF parsed.tag = "Err"
       THEN /\ main_exit' = Some([code |-> 2, stderr |-> Some(parsed.err)])
            /\ pc' = "rejected"
       ELSE /\ pc' = "start"
            /\ UNCHANGED main_exit
    /\ UNCHANGED <<arg, ret, args, config, test, run_dir, temp_dir, order, idx, child,
                   elapsed, launched, compiles, stdout, result>>

\* RunDir::new: set_cases on a clone of the Test, TempDir::new,
\* RunCommand::new (the compile step), get_files.  When RunCommand::new
\* fails the TempDir goes out of scope and its Drop removes the directory,
\* in which no process is running.
RunDir_new ==
    /\ pc = "start"
    /\ LET sc == set_cases(test, args.cases) IN
       IF sc.result.tag = "Err"
       THEN /\ result' = sc.result
            /\ pc' = "returned"
            /\ UNCHANGED <<run_dir, temp_dir, compiles>>
       ELSE \E tmp_ok \in BOOLEAN :
            IF ~tmp_ok
            THEN /\ result' = Err(handle_error(io_error("Permission denied"),
                                               Plain("Failed to create temporary directory")))
                 /\ pc' = "returned"
                 /\ UNCHANGED <<run_dir, temp_dir, compiles>>
            ELSE \E co \in CompileOutcomes(FileType(args.file.path)) :
                 LET rc == RunCommand_new(FileType(args.file.path), co)
                     files == get_files(sc.test)
                 IN  /\ compiles' = IF FileType(args.file.path) = "py" THEN compiles
                                    ELSE Append(compiles,
                                                [program |-> Compiler(FileType(args.file.path)),
                                                 outcome |-> co])
                     /\ IF rc.tag = "Ok"
                        THEN /\ run_dir' =
                                  [built |-> TRUE, run_command |-> rc.command,
                                   input_file |-> files.input_file,
                                   output_file |-> files.output_file,
                                   show_input |-> args.show_input,
                                   compare_output |-> args.compare_output,
                                   test |-> sc.test,
                                   unicode_output |-> config.unicode_output,
                                   timeout |-> args.timeout]
                             /\ temp_dir' =
                                  [EmptyTempDir EXCEPT !.files =
                                      [f \in FileNames |->
                                          IF f \in co.made THEN Some(<<>>) ELSE Nothing]]
                             /\ pc' = "ready"
                             /\ UNCHANGED result
                        ELSE /\ result' = [tag |-> rc.tag, err |-> rc.err]
                             /\ temp_dir' = remove_dir(remove_entries(EmptyTempDir))
                             /\ pc' = "returned"
                             /\ UNCHANGED run_dir
    /\ UNCHANGED <<arg, ret, args, config, test, order, idx, child, elapsed,
                   launched, stdout, main_exit>>

\* RunDir::run, the head of the for loop: case_iter sorts the names the
\* HashMap enumerates in some order.
RunDir_run ==
    /\ pc = "ready"
    /\ \E keys \in Perms(DOMAIN run_dir.test.cases) :
          order' = case_iter(keys)
    /\ idx' = 1
    /\ pc' = "loop"
    /\ UNCHANGED <<arg, ret, args, config, test, run_dir, temp_dir, child, elapsed,
                   launched, compiles, stdout, result, main_exit>>

write_input_error(path, name) ==
    handle_error(io_error("No space left on device"),
                 Msg("Failed to write test case input to file({}) for test case {}",
                     [NoFields EXCEPT !.path = Some(path), !.case_name = Some(name)]))

\* Whether Command::spawn finds the program: ./output is the compiled
\* artifact in the working directory, java and python3 come from the PATH.
can_spawn(command, dir, tool_ok) ==
    IF command.program = "./output" THEN IsSome(dir.files[<<"output">>]) ELSE tool_ok

\* write_input with the case's expected output as the text written
write_input_writes_output(dir, path, case) == fs_write(dir, path, case.output)

\* TestCase::write_input: fs::write(input_path, &self.input)
write_input(dir, path, case) == fs_write(dir, path, case.input)

\* File::open(input_path) handed to Command::stdin: the process reads what
\* the file holds
File_open(dir, path) == file_content(dir, path)

\* One pass of the loop up to spawn: write the input (to the input file, or
\* to tmp.in opened as the child's stdin), current_dir, spawn, Instant::now.
RunDir_run_spawn ==
    /\ pc = "loop"
    /\ idx <= Len(order)
    /\ LET name == order[idx]
           case == run_dir.test.cases[name]
           path == IF IsSome(run_dir.input_file) THEN run_dir.input_file[1] ELSE <<"tmp", "in">>
       IN  \E write_ok \in BOOLEAN, tool_ok \in BOOLEAN :
           IF ~write_ok
           THEN /\ result' = Err(write_input_error(path, name))
                /\ pc' = "returned"
                /\ UNCHANGED <<temp_dir, child, elapsed, launched>>
           ELSE /\ temp_dir' = write_input(temp_dir, path, case)
                /\ IF ~can_spawn(run_dir.run_command, temp_dir, tool_ok)
                   THEN /\ result' = Err(handle_error(io_error("No such file or directory"),
                                                      Plain("Failed to spawn thread for program")))
                        /\ pc' = "returned"
                        /\ UNCHANGED <<child, elapsed, launched>>
                   ELSE /\ child' = [state |-> "running", name |-> Some(name),
                                     code |-> Nothing,
                                     stdin |-> IF IsSome(run_dir.input_file) THEN Nothing
                                               ELSE File_open(write_input(temp_dir, path, case),
                                                              path),
                                     stdout |-> Nothing,
                                     cwd |-> Some("temp_dir"), waited |-> FALSE,
                                     wrote |-> FALSE]
                        /\ elapsed' = 0
                        /\ launched' = Append(launched, name)
                        /\ pc' = "waiting"
                        /\ UNCHANGED result
    /\ UNCHANGED <<arg, ret, args, config, test, run_dir, order, idx, compiles,
                   stdout, main_exit>>

\* A millisecond passes while wait_timeout blocks.
Tick ==
    /\ pc = "waiting"
    /\ child.state = "running"
    /\ elapsed < run_dir.timeout
    /\ elapsed' = elapsed + 1
    /\ UNCHANGED <<arg, ret, pc, args, config, test, run_dir, temp_dir, order, idx,
                   child, launched, compiles, stdout, result, main_exit>>

\* What the program under test may write for a case: nothing, the expected
\* answer without its line end, a wrong answer ("x"), bytes that are not UTF-8.
ProgramOutputs(expected) ==
    {Nothing, Some(trim(expected)), Some(<<120>>), Some(<<-1>>)}

ExitCodes == {Some(0), Some(1), Nothing}

\* The child process ends by itself: with an exit code, or killed by a
\* signal (no code).  A program that exits 0 has written its answer to the
\* test's output file or to its standard output, or has written nothing.
ChildExit ==
    /\ child.state = "running"
    /\ \E code \in ExitCodes :
       \E out \in (IF code = Some(0)
                   THEN ProgramOutputs(test.cases[child.name[1]].output)
                   ELSE {Nothing}) :
          /\ child' = [child EXCEPT !.state = "exited", !.code = code,
                                    !.stdout = IF test.output_io.tag = "STD"
                                               THEN out ELSE Nothing,
                                    !.wrote = test.output_io.tag = "FILE" /\ IsSome(out)
                                              /\ temp_dir.exists]
          /\ temp_dir' = IF test.output_io.tag = "FILE" /\ IsSome(out) /\ temp_dir.exists
                         THEN fs_write(temp_dir, test.output_io.path, out[1])
                         ELSE temp_dir
    /\ UNCHANGED <<arg, ret, pc, args, config, test, run_dir, order, idx, elapsed,
                   launched, compiles, stdout, result, main_exit>>

timeout_error(timeout) ==
    MkErr("Program timed out after {} milliseconds, if you want to change the timeout, use the --timeout flag",
          [NoFields EXCEPT !.timeout = Some(timeout)])

\* A timeout treated as a per-case skip: the loop goes on with the next case.
RunDir_run_timed_out_skips_case ==
    /\ pc = "waiting"
    /\ child.state = "running"
    /\ elapsed = run_dir.timeout
    /\ idx' = idx + 1
    /\ pc' = "loop"
    /\ UNCHANGED <<arg, ret, args, config, test, run_dir, temp_dir, order, child,
                   elapsed, launched, compiles, stdout, result, main_exit>>

\* wait_timeout returns None: the deadline passed and the child still runs.
\* run returns the error; the Child handle is dropped, which neither kills
\* nor waits for the process.
RunDir_run_timed_out ==
    /\ pc = "waiting"
    /\ child.state = "running"
    /\ elapsed = run_dir.timeout
    /\ result' = Err(timeout_error(run_dir.timeout))
    /\ pc' = "returned"
    /\ UNCHANGED <<arg, ret, args, config, test, run_dir, temp_dir, order, idx, child,
                   elapsed, launched, compiles, stdout, main_exit>>

nonzero_exit_error(code) ==
    MkErr("Program exited with non-zero exit code: {}",
          [NoFields EXCEPT !.exit_code = Some(code)])

\* A failed exit treated as a per-case skip: the loop goes on with the next case.
RunDir_run_failed_exit_skips_case ==
    /\ pc = "waiting"
    /\ child.state = "exited"
    /\ ~success(child.code)
    /\ child' = [child EXCEPT !.waited = TRUE]
    /\ idx' = idx + 1
    /\ pc' = "loop"
    /\ UNCHANGED <<arg, ret, args, config, test, run_dir, temp_dir, order,
                   elapsed, launched, compiles, stdout, result, main_exit>>

\* A failed exit after which the same case is launched again.
RunDir_run_failed_exit_retries_case ==
    /\ pc = "waiting"
    /\ child.state = "exited"
    /\ ~success(child.code)
    /\ child' = [child EXCEPT !.waited = TRUE]
    /\ pc' = "loop"
    /\ UNCHANGED <<arg, ret, args, config, test, run_dir, temp_dir, order, idx,
                   elapsed, launched, compiles, stdout, result, main_exit>>

\* wait_timeout returns Some(status) with !status.success(): the error with
\* exit_status.code().unwrap(), which panics when a signal ended the child.
RunDir_run_failed_exit ==
    /\ pc = "waiting"
    /\ child.state = "exited"
    /\ ~success(child.code)
    /\ result' = IF child.code = Nothing
                 THEN Panic("called Option::unwrap() on a None value")
                 ELSE Err(nonzero_exit_error(child.code[1]))
    /\ child' = [child EXCEPT !.waited = TRUE]
    /\ pc' = "returned"
    /\ UNCHANGED <<arg, ret, args, config, test, run_dir, temp_dir, order, idx,
                   elapsed, launched, compiles, stdout, main_exit>>

\* The output of a case whose process succeeded: fs::read(output_file), or
\* run_command.stdout.take().unwrap().  The Command is spawned with its
\* default (inherited) stdout, never Stdio::piped(), so Child::stdout is
\* None and the unwrap panics.
capture_output(rd, dir, ch) ==
    IF IsSome(rd.output_file)
    THEN IF ~IsSome(dir.files[rd.output_file[1]])
         THEN [tag |-> "Err",
               err |-> handle_error(io_error("No such file or directory"),
                                    Plain("Failed to read from output file, test case")),
               bytes |-> <<>>]
         ELSE [tag |-> "Ok", err |-> NoErr, bytes |-> dir.files[rd.output_file[1]][1]]
    ELSE [tag |-> "Panic",
          err |-> MkErr("called Option::unwrap() on a None value", NoFields),
          bytes |-> <<>>]

\* What RunDir::run prints for a case: the label, the input if show_input,
\* both outputs if compare_output, the time taken, the verdict symbol.
report(rd, name, case, output, time_taken) ==
    [name |-> name,
     input |-> IF rd.show_input THEN Some(indent_lines(case.input)) ELSE Nothing,
     correct_output |-> IF rd.compare_output THEN Some(indent_lines(case.output)) ELSE Nothing,
     program_output |-> IF rd.compare_output THEN Some(indent_lines(output)) ELSE Nothing,
     time_taken |-> time_taken,
     symbol |-> verdict(case.output, output, rd.unicode_output)]

\* wait_timeout returns Some(status) with status.success(): capture the
\* output, decode it, print the report, go on with the next case.
RunDir_run_exited_ok ==
    /\ pc = "waiting"
    /\ child.state = "exited"
    /\ success(child.code)
    /\ LET name == order[idx]
           case == run_dir.test.cases[name]
           time_taken == elapsed
           captured == capture_output(run_dir, temp_dir, child)
       IN  IF captured.tag # "Ok"
           THEN /\ result' = [tag |-> captured.tag, err |-> captured.err]
                /\ pc' = "returned"
                /\ UNCHANGED <<stdout, idx>>
           ELSE IF ~is_utf8(captured.bytes)
           THEN /\ result' = Err(handle_error(io_error("invalid utf-8 sequence"),
                                              Plain("Failed to turn output into valid UTF-8")))
                /\ pc' = "returned"
                /\ UNCHANGED <<stdout, idx>>
           ELSE /\ stdout' = Append(stdout, report(run_dir, name, case, captured.bytes, time_taken))
                /\ idx' = idx + 1
                /\ pc' = "loop"
                /\ UNCHANGED result
    /\ child' = [child EXCEPT !.waited = TRUE]
    /\ UNCHANGED <<arg, ret, args, config, test, run_dir, temp_dir, order,
                   elapsed, launched, compiles, main_exit>>

\* The for loop is exhausted: Ok(()).
RunDir_run_done ==
    /\ pc = "loop"
    /\ idx > Len(order)
    /\ result' = Ok
    /\ pc' = "returned"
    /\ UNCHANGED <<arg, ret, args, config, test, run_dir, temp_dir, order, idx, child,
                   elapsed, launched, compiles, stdout, main_exit>>

\* The RUN arm of ProgramData::run returns (or a panic unwinds through it),
\* which drops the RunDir and its TempDir.  TempDir's Drop calls
\* remove_dir_all and discards its error: first the entries are deleted.
TempDir_drop ==
    /\ pc = "returned"
    /\ temp_dir' = IF temp_dir.exists THEN remove_entries(temp_dir) ELSE temp_dir
    /\ pc' = "dropping"
    /\ UNCHANGED <<arg, ret, args, config, test, run_dir, order, idx, child, elapsed,
                   launched, compiles, stdout, result, main_exit>>

\* TempDir's Drop, the end of remove_dir_all: the directory is removed if
\* no file has appeared in it since its entries were deleted.
TempDir_drop_remove_dir ==
    /\ pc = "dropping"
    /\ temp_dir' = IF temp_dir.exists THEN remove_dir(temp_dir) ELSE temp_dir
    /\ pc' = "dropped"
    /\ UNCHANGED <<arg, ret, args, config, test, run_dir, order, idx, child, elapsed,
                   launched, compiles, stdout, result, main_exit>>

\* main: the error of RunDir::new or of RunDir::run, wrapped by the RUN arm
\* of ProgramData::run, is printed and the process exits 1; main returns
\* (exit 0) on Ok; a panic ends the process with status 101.
main ==
    /\ pc = "dropped"
    /\ main_exit' =
          Some(CASE result.tag = "Ok" -> [code |-> 0, stderr |-> Nothing]
                 [] result.tag = "Err" ->
                      [code |-> 1,
                       stderr |-> Some(handle_error(result.err,
                                          IF run_dir.built
                                          THEN Plain("Failed to run test")
                                          ELSE Plain("Failed to compile file and store in temp dir")))]
                 [] OTHER -> [code |-> 101, stderr |-> Some(result.err)])
    /\ pc' = "exited"
    /\ UNCHANGED <<arg, ret, args, config, test, run_dir, temp_dir, order, idx, child,
                   elapsed, launched, compiles, stdout, result>>

(***************************************************************************)
(* The session: one run command from RunDir::new to the end of main.       *)
(***************************************************************************)
SessionIdle ==
    /\ run_dir = NoRunDir
    /\ temp_dir = NoTempDir
    /\ order = <<>>
    /\ idx = 0
    /\ child = NoChild
    /\ elapsed = 0
    /\ launched = <<>>
    /\ compiles = <<>>
    /\ stdout = <<>>
    /\ result = Running
    /\ main_exit = Nothing

Init ==
    /\ arg = Nothing
    /\ ret = Nothing
    /\ pc = "parse"
    /\ args \in RunArgsSet
    /\ config \in [unicode_output : BOOLEAN]
    /\ test \in Tests
    /\ SessionIdle

Next ==
    \/ CliData_parse
    \/ RunDir_new
    \/ RunDir_run
    \/ RunDir_run_spawn
    \/ Tick
    \/ ChildExit
    \/ RunDir_run_timed_out
    \/ RunDir_run_failed_exit
    \/ RunDir_run_exited_ok
    \/ RunDir_run_done
    \/ TempDir_drop
    \/ TempDir_drop_remove_dir
    \/ main

Spec == Init /\ [][Next]_vars

(***************************************************************************)
(* The case order as a function: Test::case_iter applied to the names of a *)
(* Test, enumerated by the HashMap in any order.                           *)
(***************************************************************************)
\* "1" "2" "3" "10" "01" "+1" "-1" "a" "b" "a2" "a10" "-"
\* "2147483647" "2147483648"
NameUniverse ==
    { <<49>>, <<50>>, <<51>>, <<49, 48>>, <<48, 49>>, <<43, 49>>, <<45, 49>>,
      <<97>>, <<98>>, <<97, 50>>, <<97, 49, 48>>, <<45>>,
      <<50, 49, 52, 55, 52, 56, 51, 54, 52, 55>>,
      <<50, 49, 52, 55, 52, 56, 51, 54, 52, 56>> }

PureIdle ==
    /\ pc = "pure"
    /\ args = [file |-> [kind |-> "file", path |-> file_path("py")],
               cases |-> Nothing, show_input |-> FALSE,
               compare_output |-> FALSE, timeout |-> 0]
    /\ config = [unicode_output |-> FALSE]
    /\ test = [cases |-> <<>>, input_io |-> STD, output_io |-> STD]
    /\ SessionIdle

InitOrder ==
    /\ arg \in {S \in SUBSET NameUniverse : Cardinality(S) <= MaxNames}
    /\ ret = Nothing
    /\ PureIdle

\* One session's iteration over the Test whose case names are arg.
Test_case_iter ==
    /\ ret = Nothing
    /\ \E keys \in Perms(arg) :
          ret' = Some([keys |-> keys, names |-> case_iter(keys)])
    /\ UNCHANGED <<arg, sessionVars>>

NextOrder == Test_case_iter

SpecOrder == InitOrder /\ [][NextOrder]_vars

(***************************************************************************)
(* The comparison as a function of the expected and the captured text.     *)
(***************************************************************************)
\* " 5\n" "5" "5 6" "56" "a\r\n" "a\n" "a\nb" "a\n b" "" "\n" " a"
\* "a" followed by U+00A0 (no-break space), "a\tb", "\ta b \n"
TextUniverse ==
    { <<32, 53, 10>>, <<53>>, <<53, 32, 54>>, <<53, 54>>, <<97, 13, 10>>,
      <<97, 10>>, <<97, 10, 98>>, <<97, 10, 32, 98>>, <<>>, <<10>>, <<32, 97>>,
      <<97, 160>>, <<97, 9, 98>>, <<9, 97, 32, 98, 32, 10>> }

InitCompare ==
    /\ arg \in [expected : TextUniverse, output : TextUniverse]
    /\ ret = Nothing
    /\ PureIdle

\* The verdict of a case with expected output arg.expected whose process
\* wrote arg.output.
RunDir_run_verdict ==
    /\ ret = Nothing
    /\ \E unicode_output \in BOOLEAN :
          ret' = Some([unicode_output |-> unicode_output,
                       symbol |-> verdict(arg.expected, arg.output, unicode_output)])
    /\ UNCHANGED <<arg, sessionVars>>

NextCompare == RunDir_run_verdict

SpecCompare == InitCompare /\ [][NextCompare]_vars

(***************************************************************************)
(* The defaults of RunArgs as a function of the command line and of the    *)
(* config file: clap takes the default of --cpp-ver from                   *)
(* Config::get_cpp_ver() and the default of --timeout from                 *)
(* Config::get_time_limit(), as text, and parses the text it ends up with. *)
(***************************************************************************)
DEFAULT_CPP_VER == 17
DEFAULT_TIME_LIMIT == 5000
\* the default the help text of --timeout names
HELP_TIME_LIMIT == 1000

\* u64::to_string: the decimal digits, "0" for 0
RECURSIVE u64_to_string(_)
u64_to_string(n) ==
    IF n < 10 THEN <<48 + n>> ELSE Append(u64_to_string(n \div 10), 48 + (n % 10))

\* str::parse::<u64> of a text of digits (clap's value parser of --timeout)
RECURSIVE parse_u64(_, _)
parse_u64(digits, acc) ==
    IF digits = <<>> THEN acc
    ELSE parse_u64(Tail(digits), acc * 10 + (Head(digits) - 48))

\* values of default_timeout and of --timeout, in milliseconds
TimeLimits == {0, 1, 1000, 2000, 5000}

Config_default ==
    [default_cpp_ver |-> DEFAULT_CPP_VER, unicode_output |-> FALSE,
     default_timeout |-> DEFAULT_TIME_LIMIT]

ConfigRecords ==
    [default_cpp_ver : {11, 14, 17, 20}, unicode_output : BOOLEAN,
     default_timeout : TimeLimits]

\* config.json: the config directory cannot be found, the file is absent,
\* is no JSON of a Config, or holds a Config
ConfigFiles ==
    {[state |-> st, config |-> Config_default] : st \in {"no_config_dir", "absent", "invalid"}}
    \cup {[state |-> "valid", config |-> c] : c \in ConfigRecords}

\* Config::get: the Result, the Config of an Ok, and config.json afterwards;
\* an absent file is written with the defaults
Config_get(file, write_ok) ==
    CASE file.state = "no_config_dir" ->
           [result |-> Err(MkErr("Failed to get config directory", NoFields)),
            config |-> Config_default, file |-> file]
      [] file.state = "invalid" ->
           [result |-> Err(handle_error(io_error("expected value at line 1 column 1"),
                                        Plain("Failed to parse config file"))),
            config |-> Config_default, file |-> file]
      [] file.state = "absent" ->
           IF write_ok
           THEN [result |-> Ok, config |-> Config_default,
                 file |-> [state |-> "valid", config |-> Config_default]]
           ELSE [result |-> Err(handle_error(io_error("Permission denied"),
                                             Plain("Failed to write config file"))),
                 config |-> Config_default, file |-> file]
      [] OTHER -> [result |-> Ok, config |-> file.config, file |-> file]

\* Config::get_cpp_ver on the outcome of its Config::get
get_cpp_ver(got) ==
    IF got.result.tag = "Ok"
    THEN u64_to_string(got.config.default_cpp_ver)
    ELSE u64_to_string(DEFAULT_CPP_VER)

\* Config::get_time_limit on the outcome of its Config::get
get_time_limit(got) ==
    IF got.result.tag = "Ok"
    THEN u64_to_string(got.config.default_timeout)
    ELSE u64_to_string(DEFAULT_TIME_LIMIT)

\* --timeout: absent, or the text of a number of milliseconds
TimeoutFlags == {Nothing} \cup {Some(u64_to_string(t)) : t \in TimeLimits}

InitArgs ==
    /\ arg \in [config_file : ConfigFiles, timeout : TimeoutFlags]
    /\ ret = Nothing
    /\ PureIdle

\* Parsing the command line of run: the defaults are computed, cpp_ver
\* first, each by its own Config::get; the timeout is the parsed --timeout
\* if given, else the parsed default.
RunArgs_parse ==
    /\ ret = Nothing
    /\ \E write_ok1 \in BOOLEAN, write_ok2 \in BOOLEAN :
          LET got_cpp_ver == Config_get(arg.config_file, write_ok1)
              got_time_limit == Config_get(got_cpp_ver.file, write_ok2)
              default_value == get_time_limit(got_time_limit)
          IN  ret' = Some([cpp_ver |-> get_cpp_ver(got_cpp_ver),
                           config |-> got_time_limit,
                           timeout |-> IF IsSome(arg.timeout)
                                       THEN parse_u64(arg.timeout[1], 0)
                                       ELSE parse_u64(default_value, 0)])
    /\ UNCHANGED <<arg, sessionVars>>

NextArgs == RunArgs_parse

SpecArgs == InitArgs /\ [][NextArgs]_vars

(***************************************************************************)
(* Loading as a function of the scanned folder: Test::fill_cases on a Test *)
(* without cases, then once more on the loaded Test.  The names of the     *)
(* cases are the stems of the files: "1" is <<"1">>, "a.b" is <<"a", "b">>.*)
(***************************************************************************)
\* 1.in 1.out 2.in 2.out a.b.in a.b.out a.out notes
FolderFiles ==
    << <<"1", "in">>, <<"1", "out">>, <<"2", "in">>, <<"2", "out">>,
       <<"a", "b", "in">>, <<"a", "b", "out">>, <<"a", "out">>, <<"notes">> >>

\* the text of a file: one character that no other file has ("1", "2", ...)
FileText(f) == <<48 + (CHOOSE i \in DOMAIN FolderFiles : FolderFiles[i] = f)>>

\* folders of at most MaxFiles files, at most one of them no UTF-8 text
Folders ==
    { [f \in F |-> IF f \in B THEN <<-1>> ELSE FileText(f)] :
        F \in {G \in SUBSET Range(FolderFiles) : Cardinality(G) <= MaxFiles},
        B \in {C \in SUBSET Range(FolderFiles) : Cardinality(C) <= 1} }

EmptyTest == [cases |-> <<>>, input_io |-> STD, output_io |-> STD]

InitFill ==
    /\ arg \in Folders
    /\ ret = <<>>
    /\ PureIdle

\* fill_cases on the folder arg: first on a Test without cases, then on the
\* Test the call before left; read_dir lists the entries in any order.
Test_fill_cases ==
    /\ Len(ret) < 2
    /\ \E entries \in Perms(DOMAIN arg) :
          LET t == IF ret = <<>> THEN EmptyTest ELSE ret[Len(ret)].test
          IN  ret' = Append(ret, fill_cases(t, arg, entries))
    /\ UNCHANGED <<arg, sessionVars>>

NextFill == Test_fill_cases

SpecFill == InitFill /\ [][NextFill]_vars

(***************************************************************************)
(* The compiler flags: the config commands set-*-flag, remove-*-flag and   *)
(* reset rewrite config.json, and a later run builds its compile and run   *)
(* command lines from the Config it loads.  arg is the flag maps of        *)
(* config.json (serde writes a HashMap as a JSON object and reads it back  *)
(* as the same map), ret is the last command and what it passed.  An       *)
(* argument is the sequence of its parts.                                  *)
(***************************************************************************)
GccFlags == {"-O2", "-lm"}
JavaFlags == {"-verbose"}
FlagValues == {"", "3"}
FlagFields == {"gcc_flags", "gpp_flags", "javac_flags", "java_flags"}
FlagsOf(field) == IF field \in {"gcc_flags", "gpp_flags"} THEN GccFlags ELSE JavaFlags

\* Config::default, the flag maps
Config_default_flags ==
    [gcc_flags |-> [f \in {"-O2", "-lm"} |-> ""],
     gpp_flags |-> [f \in {"-O2", "-lm"} |-> ""],
     java_flags |-> [f \in {} |-> ""],
     javac_flags |-> [f \in {} |-> ""]]

\* config.<field>.insert(flag, value)
set_flag(conf, field, flag, value) ==
    [conf EXCEPT ![field] = [f \in DOMAIN conf[field] \cup {flag} |->
                                IF f = flag THEN value ELSE conf[field][f]]]

\* config.<field>.remove(flag)
remove_flag(conf, field, flag) ==
    [conf EXCEPT ![field] = [f \in DOMAIN conf[field] \ {flag} |-> conf[field][f]]]

\* the argument with "=" whatever the value
format_flag_with_equals(flag, value) == <<flag, "=", value>>

\* format!("{}{}{}", flag, if value.is_empty() { "" } else { "=" }, value)
format_flag(flag, value) ==
    IF value = "" THEN <<flag>> ELSE <<flag, "=", value>>

\* for (flag, value) in flags.iter() { command.arg(..) }, iter() visiting
\* the keys in the sequence keys
flag_args(flags, keys) ==
    [i \in 1..Len(keys) |-> format_flag(keys[i], flags[keys[i]])]

get_gcc_command(conf, keys) == Command("gcc", flag_args(conf.gcc_flags, keys))
get_gpp_command(conf, keys) == Command("g++", flag_args(conf.gpp_flags, keys))
get_java_command(conf, keys) == Command("java", flag_args(conf.java_flags, keys))
get_javac_command(conf, keys) == Command("javac", flag_args(conf.javac_flags, keys))

\* the flag map RunCommand::new iterates for a file type
CompileFlags(conf, file_type) ==
    CASE file_type = "cpp" -> conf.gpp_flags
      [] file_type = "c" -> conf.gcc_flags
      [] OTHER -> [f \in {} |-> ""]

\* RunCommand::new, the compile command line of each file type
compile_command(file_type, conf, cpp_ver, keys) ==
    CASE file_type = "cpp" ->
           Command("g++", get_gpp_command(conf, keys).argv
                          \o << <<"-o">>, <<"output">>, <<"-std=c++", cpp_ver>>,
                                file_path("cpp") >>)
      [] file_type = "c" ->
           Command("gcc", get_gcc_command(conf, keys).argv
                          \o << <<"-o">>, <<"output">>, file_path("c") >>)
      [] file_type = "java" ->
           Command("javac", << file_path("java"), <<"-d">>, <<"temp_dir">> >>)

NoConfigCommand ==
    [cmd |-> "none", field |-> "", flag |-> "", value |-> "", file_type |-> "",
     compile |-> NoCommand, run |-> NoCommand]

InitConfig ==
    /\ arg = Config_default_flags
    /\ ret = NoConfigCommand
    /\ PureIdle

\* config set-gpp-flag, set-gcc-flag, set-javac-flag, set-java-flag:
\* Config::get, insert, save
ConfigArgs_run_set_flag ==
    /\ \E field \in FlagFields :
          \E flag \in FlagsOf(field), value \in FlagValues :
             /\ arg' = set_flag(arg, field, flag, value)
             /\ ret' = [NoConfigCommand EXCEPT !.cmd = "set", !.field = field,
                                               !.flag = flag, !.value = value]
    /\ UNCHANGED sessionVars

\* config remove-gpp-flag, remove-gcc-flag, remove-javac-flag,
\* remove-java-flag: Config::get, remove, save
ConfigArgs_run_remove_flag ==
    /\ \E field \in FlagFields :
          \E flag \in FlagsOf(field) :
             /\ arg' = remove_flag(arg, field, flag)
             /\ ret' = [NoConfigCommand EXCEPT !.cmd = "remove", !.field = field,
                                               !.flag = flag]
    /\ UNCHANGED sessionVars

\* config reset: Config::reset writes the defaults
ConfigArgs_run_reset ==
    /\ arg' = Config_default_flags
    /\ ret' = [NoConfigCommand EXCEPT !.cmd = "reset"]
    /\ UNCHANGED sessionVars

\* run --file of a compiled type: RunCommand::new with the Config loaded
\* from config.json; the compile command it spawns and, when it returns Ok,
\* the command of the cases.
RunCommand_new_commands ==
    /\ \E file_type \in {"c", "cpp", "java"} :
          \E keys \in Perms(DOMAIN CompileFlags(arg, file_type)),
             run_command \in {RunCommand_new(file_type, co).command :
                                 co \in CompileOutcomes(file_type)} :
             ret' = [NoConfigCommand EXCEPT
                        !.cmd = "run", !.file_type = file_type,
                        !.compile = compile_command(file_type, arg, "17", keys),
                        !.run = run_command]
    /\ UNCHANGED <<arg, sessionVars>>

NextConfig ==
    \/ ConfigArgs_run_set_flag
    \/ ConfigArgs_run_remove_flag
    \/ ConfigArgs_run_reset
    \/ RunCommand_new_commands

SpecConfig == InitConfig /\ [][NextConfig]_vars

(***************************************************************************)
(* The catalog: add, remove and rename (ProgramData::run).  arg is the     *)
(* data directory: catalog is test.json, the map from the name of a test   *)
(* to its EmptyTest (here its two routings), and folders gives for every   *)
(* name the case names stored in tests/<name>, or Nothing when that folder *)
(* does not exist.  ret is the last command and its Result.  The file      *)
(* system itself does not fail: an operation fails only for what it finds  *)
(* (remove_dir_all and rename of a folder that is not there, a write into  *)
(* a folder that is not there).                                            *)
(***************************************************************************)
TestNames == {"a", "b", "c"}
\* the cases of the folder or archive given to add: none, or some
SourceCases == {{}, {<<49>>}, {<<49>>, <<50>>}}
AddInputs == {"folder", "link"}

EmptyCatalog == [n \in {} |-> get_io(Nothing)]
NoFolders == [n \in TestNames |-> Nothing]

already_exists_error(name) ==
    MkErr("Test with name {} already exists", [NoFields EXCEPT !.case_name = Some(name)])
doesnt_exist_error(name) ==
    MkErr("Test with name {} doesn't exist", [NoFields EXCEPT !.case_name = Some(name)])

\* ProgramData::load_empty_tests: the tests of test.json, without cases
load_empty_tests(disk) == disk.catalog

\* data_from_folder that does not look the name up in the catalog
data_from_folder_unchecked(disk, name) == Ok

\* AddArgs::data_from_folder: the name must not be in the catalog
data_from_folder(disk, name) ==
    IF name \in DOMAIN load_empty_tests(disk) THEN Err(already_exists_error(name)) ELSE Ok

\* AddArgs::data_from_link: the same test before the archive is downloaded
data_from_link(disk, name) ==
    IF name \in DOMAIN load_empty_tests(disk) THEN Err(already_exists_error(name)) ELSE Ok

\* AddArgs::get_test_data
get_test_data(disk, input_type, name) ==
    IF input_type = "folder" THEN data_from_folder(disk, name) ELSE data_from_link(disk, name)

\* HashMap::remove_entry
remove_entry(tests, name) == [n \in DOMAIN tests \ {name} |-> tests[n]]

\* ProgramData::write_data with at most one Test that has cases (loaded, a
\* map from test name to case names): an existing folder of that Test is
\* removed and not created again, so writing its cases fails; else the
\* folder is created and the cases are written; then test.json is written.
write_data(tests, loaded, disk) ==
    IF loaded = <<>>
    THEN [result |-> Ok, disk |-> [disk EXCEPT !.catalog = tests]]
    ELSE LET name == loaded[1].name IN
         IF IsSome(disk.folders[name])
         THEN [result |-> Err(handle_error(io_error("No such file or directory"),
                                           Plain("Error writing test data"))),
               disk |-> [disk EXCEPT !.folders[name] = Nothing]]
         ELSE [result |-> Ok,
               disk |-> [catalog |-> tests,
                         folders |-> [disk.folders EXCEPT ![name] = Some(loaded[1].cases)]]]

\* the ADD arm
ProgramData_ADD(disk, input_type, name, cases, io) ==
    LET tests == load_empty_tests(disk)
        data == get_test_data(disk, input_type, name)
    IN  IF data.tag = "Err"
        THEN [result |-> Err(handle_error(data.err, Plain("Failed to get test data"))),
              disk |-> disk]
        ELSE IF cases = {}
        THEN [result |-> Err(handle_error(no_test_cases_error,
                                          Plain("Failed to create test from folder/zip"))),
              disk |-> disk]
        ELSE LET written == write_data(HashMap_insert(tests, name, get_io(io)),
                                       <<[name |-> name, cases |-> cases]>>, disk)
             IN  IF written.result.tag = "Err"
                 THEN [result |-> Err(handle_error(written.result.err,
                                                   Plain("Failed to write data for new test"))),
                       disk |-> written.disk]
                 ELSE written

\* the REMOVE arm, the loop over the names: a listed name leaves the map and
\* its folder is deleted at once; a name that is not listed returns the
\* error from inside the loop.
RECURSIVE REMOVE_loop(_, _, _)
REMOVE_loop(tests, folders, names) ==
    IF names = <<>> THEN [result |-> Ok, tests |-> tests, folders |-> folders]
    ELSE LET test_name == Head(names) IN
         IF test_name \notin DOMAIN tests
         THEN [result |-> Err(doesnt_exist_error(test_name)), tests |-> tests,
               folders |-> folders]
         ELSE IF ~IsSome(folders[test_name])
         THEN [result |-> Err(handle_error(io_error("No such file or directory"),
                                           Plain("Failed to remove test directory"))),
               tests |-> remove_entry(tests, test_name), folders |-> folders]
         ELSE REMOVE_loop(remove_entry(tests, test_name),
                          [folders EXCEPT ![test_name] = Nothing], Tail(names))

\* the REMOVE arm without --all: write_data only after the whole loop
ProgramData_REMOVE(disk, names) ==
    LET removed == REMOVE_loop(load_empty_tests(disk), disk.folders, names) IN
    IF removed.result.tag = "Err"
    THEN [result |-> removed.result, disk |-> [disk EXCEPT !.folders = removed.folders]]
    ELSE write_data(removed.tests, <<>>, [disk EXCEPT !.folders = removed.folders])

\* the REMOVE arm with --all
ProgramData_REMOVE_all(disk) ==
    IF DOMAIN load_empty_tests(disk) = {}
    THEN [result |-> Err(MkErr("There are no tests to remove", NoFields)), disk |-> disk]
    ELSE write_data(EmptyCatalog, <<>>, [disk EXCEPT !.folders = NoFolders])

\* the RENAME arm: fs::rename fails when the old folder is not there or the
\* new one is there with files in it
ProgramData_RENAME(disk, old_name, new_name) ==
    LET tests == load_empty_tests(disk) IN
    IF old_name \notin DOMAIN tests
    THEN [result |-> Err(doesnt_exist_error(old_name)), disk |-> disk]
    ELSE IF new_name \in DOMAIN tests
    THEN [result |-> Err(already_exists_error(new_name)), disk |-> disk]
    ELSE IF ~IsSome(disk.folders[old_name]) \/ IsSome(disk.folders[new_name])
    THEN [result |-> Err(handle_error(io_error("No such file or directory"),
                                      Plain("Failed to rename test directory"))),
          disk |-> disk]
    ELSE write_data(HashMap_insert(remove_entry(tests, old_name), new_name, tests[old_name]),
                    <<>>,
                    [disk EXCEPT !.folders = [disk.folders EXCEPT
                                                 ![new_name] = disk.folders[old_name],
                                                 ![old_name] = Nothing]])

NoCatalogCommand ==
    [cmd |-> "none", name |-> "", new_name |-> "", names |-> <<>>, cases |-> {},
     result |-> Running]

InitCatalog ==
    /\ arg = [catalog |-> EmptyCatalog, folders |-> NoFolders]
    /\ ret = NoCatalogCommand
    /\ PureIdle

\* add --folder or --link, with --name and perhaps --io data
ProgramData_run_ADD ==
    /\ \E input_type \in AddInputs, name \in TestNames, cases \in SourceCases,
          io \in {Nothing, Some(<<"data">>)} :
          LET done == ProgramData_ADD(arg, input_type, name, cases, io) IN
          /\ arg' = done.disk
          /\ ret' = [NoCatalogCommand EXCEPT !.cmd = "add", !.name = name,
                                             !.cases = cases, !.result = done.result]
    /\ UNCHANGED sessionVars

\* remove name[,name]
ProgramData_run_REMOVE ==
    /\ \E names \in SeqsUpTo(TestNames, MaxRemoved) \ {<<>>} :
          LET done == ProgramData_REMOVE(arg, names) IN
          /\ arg' = done.disk
          /\ ret' = [NoCatalogCommand EXCEPT !.cmd = "remove", !.names = names,
                                             !.result = done.result]
    /\ UNCHANGED sessionVars

\* remove --all
ProgramData_run_REMOVE_all ==
    /\ LET done == ProgramData_REMOVE_all(arg) IN
          /\ arg' = done.disk
          /\ ret' = [NoCatalogCommand EXCEPT !.cmd = "remove_all", !.result = done.result]
    /\ UNCHANGED sessionVars

\* rename old new
ProgramData_run_RENAME ==
    /\ \E old_name \in TestNames, new_name \in TestNames :
          LET done == ProgramData_RENAME(arg, old_name, new_name) IN
          /\ arg' = done.disk
          /\ ret' = [NoCatalogCommand EXCEPT !.cmd = "rename", !.name = old_name,
                                             !.new_name = new_name,
                                             !.result = done.result]
    /\ UNCHANGED sessionVars

NextCatalog ==
    \/ ProgramData_run_ADD
    \/ ProgramData_run_REMOVE
    \/ ProgramData_run_REMOVE_all
    \/ ProgramData_run_RENAME

SpecCatalog == InitCatalog /\ [][NextCatalog]_vars

(***************************************************************************)
(* Properties.                                                             *)
(***************************************************************************)
SessionOver == pc \in {"returned", "dropping", "dropped", "exited"}

\* a compiler process of the session that ran and exited with a code other than 0
FailedCompiles(program) ==
    {i \in DOMAIN compiles :
        /\ compiles[i].program = program
        /\ compiles[i].outcome.spawned
        /\ IsSome(compiles[i].outcome.code)
        /\ compiles[i].outcome.code # Some(0)}

\* RunDir::new returned the compile error of outcome co, and no case ran
CompileErrorIsTerminal(co) ==
    /\ SessionOver
    /\ ~run_dir.built
    /\ result.tag = "Err"
    /\ result.err.fields.exit_code = co.code
    /\ result.err.fields.stdout = Some(co.stdout)
    /\ result.err.fields.stderr = Some(co.stderr)
    /\ launched = <<>>
    /\ child.state = "none"
    /\ stdout = <<>>

\* C1: when g++ exits with a non-zero status, RunDir::new returns an error
\* carrying the exit code, stdout and stderr of the compiler, no case is
\* launched and no verdict is reported.
C1_CppCompileFailureIsTerminal ==
    \A i \in FailedCompiles("g++") : CompileErrorIsTerminal(compiles[i].outcome)

\* C1 witness: g++ failed at link time and the tool has exited 1 with that error.
C1_Witness ==
    /\ FailedCompiles("g++") # {}
    /\ pc = "exited"
    /\ main_exit[1].code = 1
    /\ result.err.fields.stderr = Some("ld returned 1 exit status")

\* C2: when gcc exits with a non-zero status, the session ends with the
\* same terminal compile error as for g++, no case is launched and no
\* verdict is reported.
C2_CCompileFailureIsTerminal ==
    \A i \in FailedCompiles("gcc") : CompileErrorIsTerminal(compiles[i].outcome)

\* the session returned while the process of its last case was never waited for
TimedOutCase == SessionOver /\ child.state # "none" /\ ~child.waited

\* the process of the current case was waited for and had a non-zero exit code
NonZeroExitCase == child.waited /\ IsSome(child.code) /\ child.code # Some(0)

\* the case at idx is the last one launched, it has no report, every case
\* before it has one, and no case after it was launched
StoppedAtCurrentCase ==
    /\ idx \in DOMAIN order
    /\ child.name = Some(order[idx])
    /\ launched = SubSeq(order, 1, idx)
    /\ Len(stdout) = idx - 1
    /\ \A k \in DOMAIN stdout : stdout[k].name = order[k]

\* C3: when the child of a case has not exited as the timeout elapses,
\* RunDir::run returns an error stating the timeout value, no verdict is
\* reported for the case and no later case is launched.
C3_TimeoutIsTerminal ==
    TimedOutCase =>
        /\ result.tag = "Err"
        /\ result.err.fields.timeout = Some(run_dir.timeout)
        /\ elapsed = run_dir.timeout
        /\ StoppedAtCurrentCase

\* C3 witness: the first of two cases timed out after 1 ms and the tool has exited.
C3_Witness ==
    /\ TimedOutCase
    /\ pc = "exited"
    /\ run_dir.timeout = 1
    /\ Len(order) = 2
    /\ Len(launched) = 1

\* C4: when the child of a case exits with a non-zero code before the
\* timeout, RunDir::run returns an error containing that code, no verdict
\* is reported for the case and no later case is launched.
C4_NonZeroExitIsTerminal ==
    NonZeroExitCase =>
        /\ SessionOver
        /\ result.tag = "Err"
        /\ result.err.fields.exit_code = child.code
        /\ StoppedAtCurrentCase

\* C4 witness: the first of two cases exited non-zero and the tool has exited.
C4_Witness ==
    /\ NonZeroExitCase
    /\ pc = "exited"
    /\ Len(order) = 2
    /\ Len(launched) = 1

\* C5: the error of a timeout or of a non-zero exit names the case it
\* happened in, in what RunDir::run returns and in what main prints.
C5_CaseErrorsNameTheCase ==
    ((TimedOutCase \/ NonZeroExitCase) /\ result.tag = "Err") =>
        /\ child.name \in Shown(result.err, "case_name")
        /\ (pc = "exited" => child.name \in Shown(main_exit[1].stderr[1], "case_name"))

\* C6: no process the session spawned is still running once RunDir::run
\* has returned or the tool has exited.
C6_NoChildOutlivesSession ==
    SessionOver => child.state # "running"

\* i < j in a sequence of names
Ascending(names, LessEq(_, _)) ==
    \A i, j \in DOMAIN names : i < j => LessEq(names[i], names[j])

IsPermutationOf(names, S) == Len(names) = Cardinality(S) /\ Range(names) = S

\* the examples of the ordering rule: {"2","10","1"} and {"b","a10","a2"}
OrderExamples(S, names) ==
    /\ S = {<<50>>, <<49, 48>>, <<49>>} => names = <<(<<49>>), (<<50>>), (<<49, 48>>)>>
    /\ S = {<<98>>, <<97, 49, 48>>, <<97, 50>>}
          => names = <<(<<97, 49, 48>>), (<<97, 50>>), (<<98>>)>>

\* C7 (as amended): case_iter yields every case once; in ascending order of
\* the parsed values when every name parses as an i32, and otherwise the
\* whole set in strictly ascending lexicographic order.
C7_OrderNumericOrLexicographic ==
    IsSome(ret) =>
        LET names == ret[1].names IN
        /\ IsPermutationOf(names, arg)
        /\ IF \A n \in arg : ParseI32(n).ok
           THEN Ascending(names, KeyLessEq)
           ELSE Ascending(names, StrLess)
        /\ OrderExamples(arg, names)

\* C7 witness: {"2","10","1"} enumerated as 2,10,1 is iterated as 1,2,10.
C7_Witness ==
    /\ IsSome(ret)
    /\ arg = {<<50>>, <<49, 48>>, <<49>>}
    /\ ret[1].keys = <<(<<50>>), (<<49, 48>>), (<<49>>)>>
    /\ ret[1].names = <<(<<49>>), (<<50>>), (<<49, 48>>)>>

\* A decimal integer of any size: an optional sign and at least one digit.
SignStripped(s) == IF s # <<>> /\ s[1] \in {43, 45} THEN Tail(s) ELSE s

IsIntegerText(s) ==
    /\ SignStripped(s) # <<>>
    /\ \A i \in DOMAIN SignStripped(s) : IsDigit(SignStripped(s)[i])

RECURSIVE StripZeros(_)
StripZeros(d) == IF d # <<>> /\ Head(d) = 48 THEN StripZeros(Tail(d)) ELSE d

Magnitude(s) == StripZeros(SignStripped(s))

IsNegativeText(s) == s[1] = 45 /\ Magnitude(s) # <<>>

MagnitudeLess(a, b) == Len(a) < Len(b) \/ (Len(a) = Len(b) /\ StrLess(a, b))

IntegerTextLess(a, b) ==
    CASE IsNegativeText(a) /\ ~IsNegativeText(b) -> TRUE
      [] ~IsNegativeText(a) /\ IsNegativeText(b) -> FALSE
      [] IsNegativeText(a) /\ IsNegativeText(b) -> MagnitudeLess(Magnitude(b), Magnitude(a))
      [] OTHER -> MagnitudeLess(Magnitude(a), Magnitude(b))

IntegerTextLessEq(a, b) == ~IntegerTextLess(b, a)

\* C7 (as claimed): in ascending numeric order when every name is an
\* integer, whatever its size, and otherwise in lexicographic order.
C7_OrderNumericForAnyInteger ==
    IsSome(ret) =>
        LET names == ret[1].names IN
        /\ IsPermutationOf(names, arg)
        /\ IF \A n \in arg : IsIntegerText(n)
           THEN Ascending(names, IntegerTextLessEq)
           ELSE Ascending(names, StrLess)
        /\ OrderExamples(arg, names)

\* C8: the order is a function of the set of names: every enumeration of
\* the HashMap's keys gives the order this session iterates in.
C8_OrderIndependentOfEnumeration ==
    IsSome(ret) => \A keys \in Perms(arg) : case_iter(keys) = ret[1].names

\* the text between the first and the last character that is no whitespace
Core(s) ==
    LET solid == {i \in DOMAIN s : ~IsWhitespace(s[i])}
    IN  IF solid = {} THEN <<>>
        ELSE SubSeq(s, CHOOSE i \in solid : \A j \in solid : i <= j,
                       CHOOSE i \in solid : \A j \in solid : j <= i)

\* equal(" 5\n","5"), equal("a\r\n","a\n"), not equal("5 6","56"),
\* not equal("a\nb","a\n b")
CompareExamples(expected, output, pass) ==
    /\ (expected = <<32, 53, 10>> /\ output = <<53>>) => pass
    /\ (expected = <<97, 13, 10>> /\ output = <<97, 10>>) => pass
    /\ (expected = <<53, 32, 54>> /\ output = <<53, 54>>) => ~pass
    /\ (expected = <<97, 10, 98>> /\ output = <<97, 10, 32, 98>>) => ~pass

\* C9: the verdict is PASS exactly when expected and captured output are
\* equal once the leading and trailing whitespace of each whole text is
\* removed; whitespace inside the text is compared as it is.
C9_VerdictIsOuterTrimEquality ==
    IsSome(ret) =>
        LET pass == ret[1].symbol = pass_symbol(ret[1].unicode_output) IN
        /\ ret[1].symbol \in {pass_symbol(ret[1].unicode_output),
                              fail_symbol(ret[1].unicode_output)}
        /\ pass <=> Core(arg.expected) = Core(arg.output)
        /\ CompareExamples(arg.expected, arg.output, pass)

\* C9 witness: expected " 5\n" against output "5" is reported PASSED.
C9_Witness ==
    /\ IsSome(ret)
    /\ arg.expected = <<32, 53, 10>>
    /\ arg.output = <<53>>
    /\ ret[1].symbol = "PASSED"

\* C10: with standard input and output routing, a case whose process exits
\* 0 within the timeout having written the expected answer to its standard
\* output is reported PASSED with its elapsed time, and a session of that
\* one case returns success and exits 0, whatever compare_output is.
C10_StandardCasePasses ==
    ( /\ pc = "exited"
      /\ run_dir.built
      /\ run_dir.input_file = Nothing
      /\ run_dir.output_file = Nothing
      /\ Len(order) = 1
      /\ child.waited
      /\ child.code = Some(0)
      /\ IsSome(child.stdout)
      /\ Core(child.stdout[1]) = Core(run_dir.test.cases[order[1]].output) )
    =>
        /\ result.tag = "Ok"
        /\ main_exit[1].code = 0
        /\ Len(stdout) = 1
        /\ stdout[1].name = order[1]
        /\ stdout[1].symbol = pass_symbol(run_dir.unicode_output)
        /\ stdout[1].time_taken = elapsed

\* the process of the case at idx has just been spawned
JustLaunched == pc = "waiting" /\ child.state = "running" /\ elapsed = 0

\* the --io names for which `add` stores the input routing of this Test
RoutedAs(t) == {n \in IoNames : t.input_io = get_io(Some(<<n>>)).input_io}

CommandFinished == pc = "exited"

\* C12: when the run command has finished, the working directory created
\* for the session no longer exists, whichever way the session ended:
\* success, compile failure, non-zero exit of a case, timeout.
C12_TempDirRemovedOnEveryExit ==
    (CommandFinished /\ temp_dir.created) => ~temp_dir.exists

\* the names of --cases that are no case of the Test
UnknownSelected ==
    IF IsSome(args.cases)
    THEN {n \in Range(args.cases[1]) : n \notin DOMAIN test.cases}
    ELSE {}

\* C13: when a name of --cases is no case of the Test, RunDir::new (called
\* once the command line is accepted) returns
\* an error naming such a case; no working directory was created, no
\* compiler ran, no case was launched, nothing was reported, the tool exits
\* 1 printing that error, and the cases of the Test are what they were.
C13_UnknownCaseFailsBeforeAnyWork ==
    (UnknownSelected # {} /\ pc \notin {"parse", "rejected", "start"}) =>
        /\ result.tag = "Err"
        /\ \E n \in UnknownSelected : result.err.fields.case_name = Some(n)
        /\ ~run_dir.built
        /\ ~temp_dir.created
        /\ ~temp_dir.exists
        /\ compiles = <<>>
        /\ launched = <<>>
        /\ child = NoChild
        /\ stdout = <<>>
        /\ set_cases(test, args.cases).test = test
        /\ pc = "exited" =>
               /\ main_exit[1].code = 1
               /\ \E n \in UnknownSelected :
                      Some(n) \in Shown(main_exit[1].stderr[1], "case_name")

\* C13 witness: --cases 2,9 on a Test with the cases 2 and 10: the tool has
\* exited 1 and the error names "9".
C13_Witness ==
    /\ pc = "exited"
    /\ args.cases = Some(<<(<<50>>), (<<57>>)>>)
    /\ DOMAIN test.cases = {<<50>>, <<49, 48>>}
    /\ result.err.fields.case_name = Some(<<57>>)
    /\ main_exit[1].code = 1

\* the names n for which both n.<input_extension> and n.<output_extension>
\* are files of the folder
CasePairs(folder) ==
    {SubSeq(f, 1, Len(f) - 1) :
        f \in {g \in DOMAIN folder :
                  /\ Len(g) > 1
                  /\ g[Len(g)] = input_extension
                  /\ Append(SubSeq(g, 1, Len(g) - 1), output_extension) \in DOMAIN folder}}

\* every file of the pair named n is text
PairIsText(folder, n) ==
    /\ is_utf8(folder[Append(n, input_extension)])
    /\ is_utf8(folder[Append(n, output_extension)])

\* C14: fill_cases on a Test without cases recognizes the case n exactly
\* when n.<input_extension> and n.<output_extension> are both in the
\* folder, with the text of these two files; files without their partner
\* are skipped without error; without any pair the load fails with the
\* No test cases found error.
C14_CasesAreTheCompletePairs ==
    ret # <<>> =>
        LET pairs == CasePairs(arg)
            loaded == ret[1]
        IN  /\ pairs = {} => loaded.result = Err(no_test_cases_error)
            /\ (pairs # {} /\ \A n \in pairs : PairIsText(arg, n)) =>
                   /\ loaded.result = Ok
                   /\ DOMAIN loaded.test.cases = pairs
                   /\ \A n \in pairs :
                          loaded.test.cases[n] =
                              [input |-> arg[Append(n, input_extension)],
                               output |-> arg[Append(n, output_extension)]]

\* C15: when fill_cases has loaded a Test from a folder, a second
\* fill_cases on the same folder succeeds and leaves the Test with the same
\* cases: same names, same input and output text.
C15_LoadIsIdempotent ==
    (Len(ret) = 2 /\ ret[1].result = Ok) =>
        /\ ret[2].result = Ok
        /\ DOMAIN ret[2].test.cases = DOMAIN ret[1].test.cases
        /\ ret[2].test = ret[1].test

\* C15 witness: the folder 1.in 1.out 2.in 2.out loaded twice: both times the
\* two cases 1 and 2.
C15_Witness ==
    /\ Len(ret) = 2
    /\ DOMAIN arg = {<<"1", "in">>, <<"1", "out">>, <<"2", "in">>, <<"2", "out">>}
    /\ ret[1].result = Ok
    /\ DOMAIN ret[2].test.cases = {<<"1">>, <<"2">>}
    /\ ret[2].test.cases[<<"2">>] = [input |-> FileText(<<"2", "in">>),
                                      output |-> FileText(<<"2", "out">>)]

\* every case of the session has its verdict on the tool's output, in order
AllVerdictsReported ==
    /\ Len(stdout) = Len(order)
    /\ \A k \in DOMAIN stdout :
          /\ stdout[k].name = order[k]
          /\ stdout[k].symbol \in {pass_symbol(run_dir.unicode_output),
                                    fail_symbol(run_dir.unicode_output)}

\* C16: once RunDir::run is over, it has returned Ok exactly when every
\* selected case ran to completion and had its verdict reported; when it
\* did not return Ok it stopped in a case that has no verdict, never at a
\* FAILED one; and the tool exits with a non-zero status exactly when the
\* command returned an error.
C16_SuccessIffAllVerdictsReported ==
    /\ (SessionOver /\ run_dir.built) =>
          /\ result.tag = "Ok" <=> AllVerdictsReported
          /\ result.tag # "Ok" => (idx = Len(stdout) + 1 /\ idx <= Len(order))
    /\ CommandFinished => (main_exit[1].code # 0 <=> result.tag = "Err")

\* C17: for the source Main.java the run command RunCommand::new builds is
\* the java launcher with the bare class name Main as its only argument,
\* and every case's process runs with the working directory as its
\* current directory.
C17_JavaRunsBareClassName ==
    (run_dir.built /\ FileType(args.file.path) = "java") =>
        /\ run_dir.run_command.program = "java"
        /\ run_dir.run_command.argv = <<(<<"Main">>)>>
        /\ child.state # "none" => child.cwd = Some("temp_dir")

\* the javac processes of the session that ran and left no Main.class in
\* the working directory
JavacWithoutClass ==
    {i \in DOMAIN compiles :
        /\ compiles[i].program = "javac"
        /\ compiles[i].outcome.spawned
        /\ <<"Main", "class">> \notin compiles[i].outcome.made}

\* C18: for the source Main.java, when javac has run and no Main.class is
\* in the working directory (javac exited non-zero, or compiled a class of
\* another name), RunDir::new returns the error that names Main.class, no
\* case is launched, nothing is reported and the tool exits 1 with that
\* error.
C18_MissingClassFileIsTerminal ==
    JavacWithoutClass # {} =>
        /\ SessionOver
        /\ ~run_dir.built
        /\ result = Err(class_not_found_error(<<"Main", "class">>))
        /\ result.err.fields.path = Some(<<"Main", "class">>)
        /\ launched = <<>>
        /\ child = NoChild
        /\ stdout = <<>>
        /\ CommandFinished =>
               /\ main_exit[1].code = 1
               /\ Some(<<"Main", "class">>) \in Shown(main_exit[1].stderr[1], "path")

\* C18 witness: javac exited 1 without writing a class file and the tool
\* has exited 1.
C18_Witness ==
    /\ JavacWithoutClass # {}
    /\ compiles[1].outcome.code = Some(1)
    /\ CommandFinished
    /\ main_exit[1].code = 1

\* C19: without --timeout the per-case timeout is the default_timeout of
\* the config Config::get loaded, and when Config::get loads no config it
\* is 1000 milliseconds, the default the help text of --timeout states.
C19_DefaultTimeoutFromConfigElse1000 ==
    (IsSome(ret) /\ arg.timeout = Nothing) =>
        IF ret[1].config.result.tag = "Ok"
        THEN ret[1].timeout = ret[1].config.config.default_timeout
        ELSE ret[1].timeout = HELP_TIME_LIMIT

\* C20: a session whose timeout is 0 has no time limit: it never ends in
\* the timeout error, whatever time the program takes to exit.
C20_TimeoutZeroIsNoLimit ==
    (run_dir.built /\ run_dir.timeout = 0) =>
        /\ result.err.fields.timeout = Nothing
        /\ ~TimedOutCase

\* a --file that is an existing regular file with extension c, cpp, java or py
ValidSource(file) ==
    /\ file.kind = "file"
    /\ Len(file.path) > 1
    /\ file.path[Len(file.path)] \in {"c", "cpp", "java", "py"}

\* C21: a --file that does not exist, is a folder, has no extension or has
\* an extension other than c, cpp, java, py is rejected with an error when
\* the command line is parsed: the tool exits non-zero with that error, no
\* working directory was created and no compiler or program was spawned.
C21_InvalidFileRejectedBeforeAnyWork ==
    (pc # "parse" /\ ~ValidSource(args.file)) =>
        /\ pc = "rejected"
        /\ main_exit[1].code # 0
        /\ IsSome(main_exit[1].stderr)
        /\ ~temp_dir.created
        /\ ~run_dir.built
        /\ compiles = <<>>
        /\ launched = <<>>
        /\ child = NoChild
        /\ stdout = <<>>

\* C21 witness: --file folder.c, a folder, is rejected.
C21_Witness ==
    /\ pc = "rejected"
    /\ args.file = [kind |-> "dir", path |-> <<"folder", "c">>]
    /\ main_exit[1].stderr = Some(is_folder_error(args.file))

\* the argument a flag with a value is to be passed as
Rendered(flag, value) == IF value = "" THEN <<flag>> ELSE <<flag, "=", value>>
Count(seq, x) == Cardinality({i \in DOMAIN seq : seq[i] = x})
\* argv carries every flag of the map once, as flag or flag=value, and no
\* flag of the universe that is not in the map
PassesExactly(argv, flags, universe) ==
    /\ \A f \in DOMAIN flags : Count(argv, Rendered(f, flags[f])) = 1
    /\ \A f \in universe, v \in FlagValues :
          (f \notin DOMAIN flags \/ flags[f] # v) => Count(argv, Rendered(f, v)) = 0
    /\ \A f \in universe : Count(argv, <<f, "=", "">>) = 0

\* C22: the compile command of a .c (gcc) or .cpp (g++) run carries every
\* flag of the configured map of that compiler exactly once, as flag when
\* its value is empty and as flag=value otherwise, and carries no flag
\* that is not in the map; after set-gcc-flag or set-gpp-flag the flag is
\* in the stored map with the given value, after remove-gcc-flag or
\* remove-gpp-flag it is not.
C22_GccGppFlagsPassedOnce ==
    /\ (ret.cmd = "run" /\ ret.file_type = "c") =>
          /\ ret.compile.program = "gcc"
          /\ PassesExactly(ret.compile.argv, arg.gcc_flags, GccFlags)
    /\ (ret.cmd = "run" /\ ret.file_type = "cpp") =>
          /\ ret.compile.program = "g++"
          /\ PassesExactly(ret.compile.argv, arg.gpp_flags, GccFlags)
    /\ (ret.cmd = "set" /\ ret.field \in {"gcc_flags", "gpp_flags"}) =>
          /\ ret.flag \in DOMAIN arg[ret.field]
          /\ arg[ret.field][ret.flag] = ret.value
    /\ (ret.cmd = "remove" /\ ret.field \in {"gcc_flags", "gpp_flags"}) =>
          ret.flag \notin DOMAIN arg[ret.field]

\* C22 witness: a .cpp run after -lm was set to 3 and -O2 was removed for
\* g++: -lm=3 is passed once, -lm and -O2 are not.
C22_Witness ==
    /\ ret.cmd = "run"
    /\ ret.file_type = "cpp"
    /\ DOMAIN arg.gpp_flags = {"-lm"}
    /\ arg.gpp_flags["-lm"] = "3"
    /\ arg.gcc_flags = Config_default_flags.gcc_flags
    /\ Count(ret.compile.argv, <<"-lm", "=", "3">>) = 1
    /\ Count(ret.compile.argv, <<"-lm">>) = 0
    /\ Count(ret.compile.argv, <<"-O2">>) = 0

\* C23: for a .java run, the javac command carries every flag configured
\* for javac and the java command carries every flag configured for java,
\* each as flag or flag=value.
C23_JavaFlagsPassed ==
    (ret.cmd = "run" /\ ret.file_type = "java") =>
        /\ ret.compile.program = "javac"
        /\ \A f \in DOMAIN arg.javac_flags :
              Count(ret.compile.argv, Rendered(f, arg.javac_flags[f])) >= 1
        /\ ret.run # NoCommand =>
              /\ ret.run.program = "java"
              /\ \A f \in DOMAIN arg.java_flags :
                    Count(ret.run.argv, Rendered(f, arg.java_flags[f])) >= 1

\* a verdict is printed for a case of a Test routed to an output file
FileVerdictPrinted ==
    /\ IsSome(run_dir.output_file)
    /\ Len(stdout') = Len(stdout) + 1

\* C24: under File output routing, the output compared for a case was
\* written to the output file by that case's own process.
C24_FileOutputIsOfOwnRun ==
    [][FileVerdictPrinted =>
          /\ child.name = Some(stdout'[Len(stdout')].name)
          /\ child.wrote]_vars

\* C25: under Standard input routing, the standard input of the process
\* launched for a case is exactly the stored input text of that case.
C25_StdinIsTheCasesInput ==
    (child.state # "none" /\ test.input_io = STD) =>
        /\ child.name[1] \in DOMAIN test.cases
        /\ child.stdin = Some(test.cases[child.name[1]].input)

\* C25 witness: the process of case 10, the only selected case of a Test
\* with cases 2 and 10 read from standard input, runs with the input of
\* case 10 on its standard input.
C25_Witness ==
    /\ child.state = "running"
    /\ test.input_io = STD
    /\ DOMAIN test.cases = SessionNames
    /\ child.name = Some(<<49, 48>>)
    /\ child.stdin = Some(StoredCase(<<49, 48>>).input)
    /\ child.stdin # Some(StoredCase(<<50>>).input)

NoDuplicates(seq) == \A i \in DOMAIN seq, j \in DOMAIN seq : seq[i] = seq[j] => i = j

\* the step launches the process of a case
CaseLaunched == Len(launched') = Len(launched) + 1

\* C26: in a session the compiler is run at most once and not after a case
\* process was launched; no case's process is launched twice; and when the
\* process of a case is launched, the process of the case before it has
\* exited, its status was collected and its verdict was printed.
C26_OneCompileThenCasesOneAtATime ==
    [][/\ Len(compiles') <= 1
       /\ launched # <<>> => compiles' = compiles
       /\ CaseLaunched =>
             /\ NoDuplicates(launched')
             /\ launched # <<>> =>
                   /\ child.state = "exited"
                   /\ child.waited
                   /\ child.name = Some(launched[Len(launched)])
                   /\ Len(stdout) = Len(launched)
                   /\ stdout[Len(stdout)].name = launched[Len(launched)]]_vars

\* C26 witness: after one compile, the second case's process runs and the
\* first case's verdict is printed.
C26_Witness ==
    /\ Len(compiles) = 1
    /\ Len(launched) = 2
    /\ child.state = "running"
    /\ child.name = Some(launched[2])
    /\ Len(stdout) = 1
    /\ stdout[1].name = launched[1]

\* the cases --cases selects: all the stored ones without a list, else the
\* set of the names listed
Selected == IF IsSome(args.cases) THEN Range(args.cases[1]) ELSE DOMAIN test.cases

IsPrefixOf(p, q) == Len(p) <= Len(q) /\ p = SubSeq(q, 1, Len(p))

\* C27: the cases a session runs are the set selected, each once, in the
\* ascending order of the ordering rule whatever the order or the
\* repetitions of the list: the session iterates over exactly the selected
\* names and launches them in that order.
C27_SelectionIsBySet ==
    /\ (run_dir.built /\ pc # "ready") => order # <<>>
    /\ launched # <<>> => order # <<>>
    /\ order # <<>> =>
          /\ IsPermutationOf(order, Selected)
          /\ Ascending(order, KeyLessEq)
          /\ IsPrefixOf(launched, order)
          /\ args.cases = Some(<<(<<49, 48>>), (<<50>>)>>) => order = <<(<<50>>), (<<49, 48>>)>>
          /\ args.cases = Some(<<(<<49, 48>>), (<<49, 48>>)>>) => order = <<(<<49, 48>>)>>
          /\ args.cases = Nothing => Len(order) = Cardinality(DOMAIN test.cases)

\* C27 witness: --cases 10,2 has run case 2 and then case 10.
C27_Witness ==
    /\ args.cases = Some(<<(<<49, 48>>), (<<50>>)>>)
    /\ launched = <<(<<50>>), (<<49, 48>>)>>
    /\ Len(stdout) = 2

\* the session is over and the process of its last case was ended by a
\* signal, so that its status has no exit code
EndedBySignal ==
    /\ SessionOver
    /\ child.state = "exited"
    /\ child.waited
    /\ child.code = Nothing

\* C28: when the process of a case is ended by a signal before the timeout,
\* RunDir::run returns an error value; the tool does not panic.
C28_SignalledCaseIsTerminalError ==
    EndedBySignal =>
        /\ result.tag = "Err"
        /\ CommandFinished => main_exit[1].code = 1

\* C29: after any sequence of add, remove and rename commands, every test
\* listed in test.json has its folder of cases, and every folder of cases
\* belongs to a listed test.
C29_CatalogAndFoldersAgree ==
    /\ \A n \in DOMAIN arg.catalog : IsSome(arg.folders[n])
    /\ \A n \in TestNames : IsSome(arg.folders[n]) => n \in DOMAIN arg.catalog

\* the step is an add or a rename onto a name that is in the catalog, or a
\* rename of a name that is not
AddOntoExisting == ret'.cmd = "add" /\ ret'.name \in DOMAIN arg.catalog
RenameOntoExisting ==
    /\ ret'.cmd = "rename"
    /\ ret'.name \in DOMAIN arg.catalog
    /\ ret'.new_name \in DOMAIN arg.catalog
RenameOfMissing == ret'.cmd = "rename" /\ ret'.name \notin DOMAIN arg.catalog

====
